---- MODULE Spec2Model ----
(***************************************************************************)
(* The two Lightsail modules, lightsail_firewall.py and                    *)
(* lightsail_keypair.py, as one state machine.  A run is a sequence of     *)
(* module invocations against the same remote account: every invocation    *)
(* draws its parameters and its environment, walks main -> core -> the     *)
(* handler of its state -> exit_json, and each SDK call it makes draws its  *)
(* outcome (a response, a botocore ClientError, or another exception).      *)
(* The remote account (key pairs, open ports) persists across invocations; *)
(* everything else is reset by the next invocation.                        *)
(*                                                                         *)
(* lightsail_firewall.py does not parse as written (`except as e:`,        *)
(* `params['from_port')`, `params['name]`, `type'str'`); it is modelled    *)
(* with these repaired in the only way that parses: a bare handler that     *)
(* binds the exception, and plain subscripts.                              *)
(***************************************************************************)
EXTENDS Integers, Sequences, FiniteSets, TLC

\* ------------------------------------------------------------------ bounds
MaxInvocations == 2

\* ------------------------------------------------------ inputs that are drawn
Names == {"k1", "k2"}
PublicKeys == {"pkA"}
Instances == {"i1"}
Protocols == {"tcp", "udp"}
Ports == {22, 80}
Regions == {"", "us-east-1"}

FirewallStates == {"present", "absent"}
KeypairStates == {"present", "absent", "stopped", "running", "restarted"}

\* The exceptions an SDK call can raise: botocore's ClientError, which the
\* handlers of lightsail_keypair.py name, and any other exception.
ClientErrors == {[cls |-> "ClientError", text |-> "AccessDeniedException"]}
OtherErrors == {[cls |-> "EndpointConnectionError", text |-> "Could not connect"]}
Errors == ClientErrors \cup OtherErrors

\* Python's None, as a value that compares with dictionaries.
None == [none |-> TRUE]

VARIABLES
    keyPairs,        \* remote: names of the account's key pairs
    openPorts,       \* remote: [instance, portInfo] rules open to the public
    modname,         \* the module being run
    params,          \* module.params
    HAS_BOTO3,       \* import flags of the invocation
    HAS_BOTOCORE,
    region,          \* region of get_aws_connection_info ("" when unset)
    client,          \* core's client
    pc,              \* position of the invocation
    changed,         \* core's changed
    response_dict,   \* core's response_dict / key_pair_dict
    kp_name,         \* import_keypair's _kp_name
    calls,           \* SDK calls of this invocation, in order, with outcome
    reports,         \* terminal reports of this invocation (exit_json/fail_json)
    stdout,          \* what the invocation printed besides its report
    ninv,            \* invocations started
    pre              \* the remote account as this invocation found it

vars == <<keyPairs, openPorts, modname, params, HAS_BOTO3, HAS_BOTOCORE, region,
          client, pc, changed, response_dict, kp_name, calls, reports, stdout,
          ninv, pre>>

remote == <<keyPairs, openPorts>>
invocation == <<modname, params, HAS_BOTO3, HAS_BOTOCORE, region, ninv, pre>>

\* ----------------------------------------------------------- ansible runtime

\* module.fail_json(msg=...): one failure report, and the process exits.
fail_json(msg) ==
    /\ reports' = Append(reports, [kind |-> "fail_json", msg |-> msg])
    /\ pc' = "done"

\* module.exit_json(changed=..., instance=...): one success report, and exit.
exit_json(ch, inst) ==
    /\ reports' = Append(reports, [kind |-> "exit_json", changed |-> ch, instance |-> inst])
    /\ pc' = "done"

\* camel_to_snake of the keys the responses carry.
camel_to_snake(k) ==
    CASE k = "resourceName" -> "resource_name"
      [] k = "operationType" -> "operation_type"
      [] k = "fromPort" -> "from_port"
      [] k = "toPort" -> "to_port"
      [] OTHER -> k

SnakeKeys(d) == {camel_to_snake(k) : k \in DOMAIN d}

SnakeFlat(d) ==
    [s \in SnakeKeys(d) |-> d[CHOOSE k \in DOMAIN d : camel_to_snake(k) = s]]

\* camel_dict_to_snake_dict on a response: keys renamed, the nested
\* "operation" document renamed in turn.
camel_dict_to_snake_dict(d) ==
    [s \in SnakeKeys(d) |->
        LET k == CHOOSE c \in DOMAIN d : camel_to_snake(c) = s
        IN  IF k = "operation" THEN SnakeFlat(d[k]) ELSE d[k]]

\* str(e) / '{0}'.format(e)
str(e) == e.text

\* main's `except (botocore.exceptions.ClientError, Exception) as e`:
\* whatever core lets through is reported with msg=str(e).
main_except(e) == fail_json(<<str(e)>>)

AttributeError == [cls |-> "AttributeError", text |-> "'NoneType' object has no attribute 'items'"]
TypeError == [cls |-> "TypeError", text |-> "'NoneType' object is not iterable"]

\* ------------------------------------------------------------- SDK responses
Operation(name, type) == [resourceName |-> name, operationType |-> type]

\* An entry of calls: the operation, its keyword arguments, and OK or the
\* exception it raised.
OK == [cls |-> "ok", text |-> ""]

Call(op, kwargs, outcome) == [op |-> op, kwargs |-> kwargs, outcome |-> outcome]

\* -------------------------------------------------------------------- Init
Init ==
    /\ keyPairs \in SUBSET Names
    /\ openPorts = {}
    /\ modname = "none"
    /\ params = None
    /\ HAS_BOTO3 = TRUE
    /\ HAS_BOTOCORE = TRUE
    /\ region = ""
    /\ client = None
    /\ pc = "idle"
    /\ changed = FALSE
    /\ response_dict = None
    /\ kp_name = None
    /\ calls = <<>>
    /\ reports = <<>>
    /\ stdout = <<>>
    /\ ninv = 0
    /\ pre = [keyPairs |-> keyPairs, openPorts |-> openPorts]

\* ------------------------------------------------------------- invocations
FirewallParams ==
    [name : Instances, protocol : Protocols, state : FirewallStates,
     from_port : Ports, to_port : Ports]

KeypairParams ==
    [name : Instances, state : KeypairStates,
     public_key_base64 : PublicKeys, key_pair_name : Names]

\* AnsibleModule(argument_spec=...): a new process with parsed parameters.
Start(m, p) ==
    /\ pc \in {"idle", "done"}
    /\ ninv < MaxInvocations
    /\ ninv' = ninv + 1
    /\ pre' = [keyPairs |-> keyPairs, openPorts |-> openPorts]
    /\ modname' = m
    /\ params' = p
    /\ HAS_BOTO3' \in BOOLEAN
    /\ HAS_BOTOCORE' \in BOOLEAN
    /\ region' \in Regions
    /\ client' = None
    /\ pc' = "main"
    /\ changed' = FALSE
    /\ response_dict' = None
    /\ kp_name' = None
    /\ calls' = <<>>
    /\ reports' = <<>>
    /\ stdout' = <<>>
    /\ UNCHANGED remote

firewall_invoke == \E p \in FirewallParams : Start("lightsail_firewall", p)

keypair_invoke == \E p \in KeypairParams : Start("lightsail_keypair", p)

\* main, after the module object exists: the two import flags, then core.
Preflight(m) ==
    /\ pc = "main"
    /\ modname = m
    /\ IF ~HAS_BOTO3
       THEN fail_json(<<"Python module \"boto3\" is missing, please install it">>)
       ELSE IF ~HAS_BOTOCORE
       THEN fail_json(<<"Python module \"botocore\" is missing, please install it">>)
       ELSE pc' = "core" /\ UNCHANGED reports
    /\ UNCHANGED <<remote, invocation, client, changed, response_dict, kp_name,
                   calls, stdout>>

firewall_main == Preflight("lightsail_firewall")

\* main without its HAS_BOTOCORE test.
keypair_main_boto3_only ==
    /\ pc = "main"
    /\ modname = "lightsail_keypair"
    /\ IF ~HAS_BOTO3
       THEN fail_json(<<"Python module \"boto3\" is missing, please install it">>)
       ELSE pc' = "core" /\ UNCHANGED reports
    /\ UNCHANGED <<remote, invocation, client, changed, response_dict, kp_name,
                   calls, stdout>>

keypair_main == Preflight("lightsail_keypair")

\* core up to the dispatch on state: the region, then the client.
Connect(m) ==
    /\ pc = "core"
    /\ modname = m
    /\ IF region = ""
       THEN /\ fail_json(<<"region must be specified">>)
            /\ UNCHANGED <<client, calls>>
       ELSE \/ /\ client' = [service |-> "lightsail", region |-> region]
               /\ calls' = Append(calls, Call("boto3_conn", [region |-> region], OK))
               /\ pc' = "dispatch"
               /\ UNCHANGED reports
            \/ \E e \in Errors :
               /\ calls' = Append(calls, Call("boto3_conn", [region |-> region], e))
               /\ UNCHANGED client
               /\ IF e \in ClientErrors
                  THEN fail_json(<<"Failed while connecting to the lightsail service: ", str(e)>>)
                  ELSE main_except(e)
    /\ UNCHANGED <<remote, invocation, changed, response_dict, kp_name, stdout>>

firewall_core == Connect("lightsail_firewall")

keypair_core == Connect("lightsail_keypair")

\* core's last line: the response is translated and reported.  The
\* translation walks the items of its argument, so None raises, and main
\* reports that exception.
Exit(m) ==
    /\ pc = "exit"
    /\ modname = m
    /\ IF response_dict = None
       THEN main_except(AttributeError)
       ELSE exit_json(changed, camel_dict_to_snake_dict(response_dict))
    /\ UNCHANGED <<remote, invocation, client, changed, response_dict, kp_name,
                   calls, stdout>>

firewall_exit == Exit("lightsail_firewall")

\* core's last line under a main that has no try/except around core: the
\* exception of the translation ends the process unreported.
keypair_exit_uncaught ==
    /\ pc = "exit"
    /\ modname = "lightsail_keypair"
    /\ IF response_dict = None
       THEN pc' = "done" /\ UNCHANGED reports
       ELSE exit_json(changed, camel_dict_to_snake_dict(response_dict))
    /\ UNCHANGED <<remote, invocation, client, changed, response_dict, kp_name,
                   calls, stdout>>

keypair_exit == Exit("lightsail_keypair")

\* ------------------------------------------------------ lightsail_firewall
PortInfo(p) == [fromPort |-> p.from_port, toPort |-> p.to_port, protocol |-> p.protocol]

\* The keyword arguments both port calls pass (the second keyword is spelled
\* istanceName in the source).
PortKwargs(p) == [portInfo |-> PortInfo(p), istanceName |-> p.name]

Rule(p) == [instance |-> p.name, portInfo |-> PortInfo(p)]

\* open_port; chg is what `changed` becomes once the call has returned.
OpenPort(chg) ==
    /\ pc = "dispatch"
    /\ modname = "lightsail_firewall"
    /\ params.state = "present"
    /\ \/ /\ calls' = Append(calls, Call("open_instance_public_ports", PortKwargs(params), OK))
          /\ openPorts' = openPorts \cup {Rule(params)}
          /\ response_dict' = [operation |-> Operation(params.name, "OpenInstancePublicPorts")]
          /\ changed' = chg
          /\ pc' = "exit"
          /\ UNCHANGED reports
       \/ \E e \in Errors :
          /\ calls' = Append(calls, Call("open_instance_public_ports", PortKwargs(params), e))
          /\ fail_json(<<"Error opening ports for instance ", params.name, ", error: ", str(e)>>)
          /\ UNCHANGED <<openPorts, response_dict, changed>>
    /\ UNCHANGED <<keyPairs, invocation, client, kp_name, stdout>>

open_port_if_closed == OpenPort(Rule(params) \notin openPorts)

open_port == OpenPort(TRUE)

close_port ==
    /\ pc = "dispatch"
    /\ modname = "lightsail_firewall"
    /\ params.state = "absent"
    /\ \/ /\ calls' = Append(calls, Call("close_instance_public_ports", PortKwargs(params), OK))
          /\ openPorts' = openPorts \ {Rule(params)}
          /\ response_dict' = [operation |-> Operation(params.name, "CloseInstancePublicPorts")]
          /\ changed' = TRUE
          /\ pc' = "exit"
          /\ UNCHANGED reports
       \/ \E e \in Errors :
          /\ calls' = Append(calls, Call("close_instance_public_ports", PortKwargs(params), e))
          /\ fail_json(<<"Error closing ports for instance ", params.name, ", error: ", str(e)>>)
          /\ UNCHANGED <<openPorts, response_dict, changed>>
    /\ UNCHANGED <<keyPairs, invocation, client, kp_name, stdout>>

\* ------------------------------------------------------- lightsail_keypair
\* create_keypair and get_keypairs are defined in the file and called from
\* nowhere; they have no action.
delete_key_pair ==
    /\ pc = "dispatch"
    /\ modname = "lightsail_keypair"
    /\ params.state = "absent"
    /\ LET kwargs == [keyPairName |-> params.key_pair_name]
       IN  \/ /\ calls' = Append(calls, Call("create_key_pair", kwargs, OK))
              /\ keyPairs' = keyPairs \cup {params.key_pair_name}
              /\ response_dict' = Operation(params.key_pair_name, "CreateKeyPair")
              /\ changed' = TRUE
              /\ pc' = "exit"
              /\ UNCHANGED reports
           \/ \E e \in Errors :
              /\ calls' = Append(calls, Call("create_key_pair", kwargs, e))
              /\ IF e \in ClientErrors
                 THEN fail_json(<<"Unable to delete keypair ", params.key_pair_name,
                                  ", error ", str(e)>>)
                 ELSE main_except(e)
              /\ UNCHANGED <<keyPairs, response_dict, changed>>
    /\ UNCHANGED <<openPorts, invocation, client, kp_name, stdout>>

\* core's branches for running/stopped and for restarted: a print, no call.
Stub(states) ==
    /\ pc = "dispatch"
    /\ modname = "lightsail_keypair"
    /\ params.state \in states
    /\ stdout' = Append(stdout, "foo")
    /\ pc' = "exit"
    /\ UNCHANGED <<remote, invocation, client, changed, response_dict, kp_name,
                   calls, reports>>

core_startstop == Stub({"running", "stopped"})

core_restarted == Stub({"restarted"})

\* get_keypair, as import_keypair calls it: the lookup by name.  The account
\* answers with the key pair of that name, or with no key pair.
\* fatal: whether the ClientError handler ends the module (fail_json) or
\* lets get_keypair return (changed, None).
GetKeypair(fatal) ==
    /\ pc = "dispatch"
    /\ modname = "lightsail_keypair"
    /\ params.state = "present"
    /\ LET kwargs == [keyPairName |-> params.key_pair_name]
       IN  \/ /\ calls' = Append(calls, Call("get_key_pair", kwargs, OK))
              /\ kp_name' = IF params.key_pair_name \in keyPairs
                            THEN [name |-> params.key_pair_name]
                            ELSE None
              /\ pc' = "import"
              /\ UNCHANGED reports
           \/ \E e \in Errors :
              /\ calls' = Append(calls, Call("get_key_pair", kwargs, e))
              /\ UNCHANGED kp_name
              /\ IF e \in ClientErrors
                 THEN IF fatal
                      THEN fail_json(<<"Unable to get keypair ", params.key_pair_name,
                                       ", error ", str(e)>>)
                      ELSE pc' = "import" /\ UNCHANGED reports
                 ELSE main_except(e)
    /\ UNCHANGED <<remote, invocation, client, changed, response_dict, stdout>>

get_keypair_error_ignored == GetKeypair(FALSE)

get_keypair == GetKeypair(TRUE)

\* import_keypair after the lookup; exists is the test `_kp_name is not None`,
\* chg what `changed` becomes once the import call has returned.
ImportKeypair(exists, chg) ==
    /\ pc = "import"
    /\ modname = "lightsail_keypair"
    /\ IF exists
       THEN /\ IF kp_name.name = params.key_pair_name
               THEN fail_json(<<"Keypair with name ", params.key_pair_name, " already exists">>)
               ELSE main_except(TypeError)   \* falls off the end: core unpacks None
            /\ UNCHANGED <<keyPairs, calls, response_dict, changed>>
       ELSE LET kwargs == [keyPairName |-> params.key_pair_name,
                           publicKeyBase64 |-> params.public_key_base64]
            IN  \/ /\ calls' = Append(calls, Call("import_key_pair", kwargs, OK))
                   /\ keyPairs' = keyPairs \cup {params.key_pair_name}
                   /\ response_dict' = [operation |->
                                          Operation(params.key_pair_name, "ImportKeyPair")]
                   /\ changed' = chg
                   /\ pc' = "exit"
                   /\ UNCHANGED reports
                \/ \E e \in Errors :
                   /\ calls' = Append(calls, Call("import_key_pair", kwargs, e))
                   /\ IF e \in ClientErrors
                      THEN fail_json(<<"Unable to import keypair ", params.key_pair_name,
                                       ", error ", str(e)>>)
                      ELSE main_except(e)
                   /\ UNCHANGED <<keyPairs, response_dict, changed>>
    /\ UNCHANGED <<openPorts, invocation, client, kp_name, stdout>>

import_keypair_unchecked == ImportKeypair(FALSE, TRUE)

import_keypair_changed_unset == ImportKeypair(kp_name # None, FALSE)

import_keypair == ImportKeypair(kp_name # None, TRUE)

\* --------------------------------------------------------------------- Next
Step ==
    \/ firewall_main
    \/ firewall_core
    \/ open_port
    \/ close_port
    \/ firewall_exit
    \/ keypair_main
    \/ keypair_core
    \/ delete_key_pair
    \/ core_startstop
    \/ core_restarted
    \/ get_keypair
    \/ import_keypair
    \/ keypair_exit

Next ==
    \/ firewall_invoke
    \/ keypair_invoke
    \/ Step

Spec == Init /\ [][Next]_vars

\* A started process runs to its end: single-threaded, every call blocking.
FairSpec == Spec /\ WF_vars(Step)

\* ================================================================ properties
Running == pc \notin {"idle", "done"}
Done == pc = "done"
Report == reports[1]
Succeeded == Done /\ Len(reports) = 1 /\ Report.kind = "exit_json"
Failed == Done /\ Len(reports) = 1 /\ Report.kind = "fail_json"

Keypair(states) == pc # "idle" /\ modname = "lightsail_keypair" /\ params.state \in states
Firewall(states) == pc # "idle" /\ modname = "lightsail_firewall" /\ params.state \in states

IsRemote(c) == c.op # "boto3_conn"
RemoteCalls == SelectSeq(calls, IsRemote)
CallsOf(op) == {i \in 1..Len(calls) : calls[i].op = op}
LastRemote == RemoteCalls[Len(RemoteCalls)]
Contains(msg, x) == \E i \in 1..Len(msg) : msg[i] = x

\* The lookup of import_keypair returned (it did not raise).
LookupAnswered ==
    /\ Len(RemoteCalls) >= 1
    /\ RemoteCalls[1].op = "get_key_pair"
    /\ RemoteCalls[1].outcome = OK

\* C1: an invocation of the key-pair manager with state=absent and name N
\* calls only the deletion endpoint, with name N; when that call succeeds the
\* invocation reports changed = true, and when it raises a client error the
\* invocation fails with a message containing the error's message.
C1_DeleteCallsDeletionEndpoint ==
    Keypair({"absent"}) =>
        /\ \A i \in 1..Len(RemoteCalls) :
              /\ RemoteCalls[i].op = "delete_key_pair"
              /\ RemoteCalls[i].kwargs = [keyPairName |-> params.key_pair_name]
        /\ (Done /\ RemoteCalls # <<>> /\ LastRemote.outcome = OK)
              => (Succeeded /\ Report.changed = TRUE)
        /\ (Done /\ RemoteCalls # <<>> /\ LastRemote.outcome \in ClientErrors)
              => (Failed /\ Contains(Report.msg, LastRemote.outcome.text))

\* The import call of C2: made exactly once, with name N and the given key.
ImportedOnce ==
    /\ Cardinality(CallsOf("import_key_pair")) = 1
    /\ LastRemote.op = "import_key_pair"
    /\ LastRemote.kwargs = [keyPairName |-> params.key_pair_name,
                            publicKeyBase64 |-> params.public_key_base64]

\* A finished state=present invocation whose name was not in the account and
\* whose lookup found nothing.
NewNameImport ==
    /\ Keypair({"present"})
    /\ Done
    /\ params.key_pair_name \notin pre.keyPairs
    /\ LookupAnswered

\* C2 as stated: a state=present invocation whose name N does not exist (the
\* lookup finds nothing) calls the import endpoint exactly once with N and the
\* given key, and ends successfully reporting changed = true.
C2_ImportAlwaysSucceeds ==
    NewNameImport => (ImportedOnce /\ Succeeded /\ Report.changed = TRUE)

\* C2 amended: such an invocation calls the import endpoint exactly once with
\* N and the given key; it ends successfully reporting changed = true when
\* that call succeeds, and fails when that call raises.
C2_ImportOnceChangedOnSuccess ==
    NewNameImport =>
        /\ ImportedOnce
        /\ (LastRemote.outcome = OK) => (Succeeded /\ Report.changed = TRUE)
        /\ (LastRemote.outcome # OK) => Failed

C2_Witness ==
    /\ NewNameImport
    /\ ImportedOnce
    /\ LastRemote.outcome = OK
    /\ Succeeded
    /\ Report.changed = TRUE
    /\ params.key_pair_name \in keyPairs

\* C3: a state=present invocation whose name N is already in the account
\* never calls the import endpoint and leaves the account unchanged, and once
\* its lookup has found the key pair it fails with a message containing N.
C3_ExistingNameFailsWithoutImport ==
    (Keypair({"present"}) /\ params.key_pair_name \in pre.keyPairs) =>
        /\ CallsOf("import_key_pair") = {}
        /\ keyPairs = pre.keyPairs
        /\ pc # "exit"
        /\ (Done /\ LookupAnswered)
              => (Failed /\ Contains(Report.msg, params.key_pair_name))

C3_Witness ==
    /\ Keypair({"present"})
    /\ params.key_pair_name \in pre.keyPairs
    /\ Done
    /\ LookupAnswered
    /\ Failed
    /\ Contains(Report.msg, params.key_pair_name)
    /\ Contains(Report.msg, " already exists")

\* The request the firewall toggler is to send for its parameters.
PortRequestFor(c, p) ==
    /\ c.kwargs.portInfo = [protocol |-> p.protocol, fromPort |-> p.from_port,
                            toPort |-> p.to_port]
    /\ "instanceName" \in DOMAIN c.kwargs
    /\ c.kwargs.instanceName = p.name

\* C4: with state=present the open-public-port endpoint is invoked with a
\* port description of exactly protocol, from_port and to_port, for the
\* instance named name; when the call succeeds the result has changed = true.
C4_OpenPortRequest ==
    Firewall({"present"}) =>
        /\ \A i \in 1..Len(RemoteCalls) :
              /\ RemoteCalls[i].op = "open_instance_public_ports"
              /\ PortRequestFor(RemoteCalls[i], params)
        /\ (Done /\ RemoteCalls # <<>> /\ LastRemote.outcome = OK)
              => (Succeeded /\ Report.changed = TRUE)

\* Open and close never both occur in one invocation.  (Not a claim of its
\* own: the half of C5 that the misspelled keyword does not touch.)
OpenCloseExclusive ==
    CallsOf("open_instance_public_ports") = {} \/ CallsOf("close_instance_public_ports") = {}

\* C5: with state=absent the close-public-port endpoint is invoked with the
\* invocation's name, protocol, from_port and to_port, and the open endpoint
\* is never invoked; open and close are mutually exclusive in an invocation.
C5_ClosePortRequest ==
    /\ OpenCloseExclusive
    /\ Firewall({"absent"}) =>
          /\ CallsOf("open_instance_public_ports") = {}
          /\ \A i \in 1..Len(RemoteCalls) :
                /\ RemoteCalls[i].op = "close_instance_public_ports"
                /\ PortRequestFor(RemoteCalls[i], params)

\* C6: an SDK call that raised is the last SDK call of its invocation, the
\* invocation has then reported failure, and it reports no success.
C6_ErrorsAreTerminal ==
    \A i \in 1..Len(calls) :
        calls[i].outcome # OK =>
            /\ i = Len(calls)
            /\ Failed

C6_Witness ==
    /\ Len(RemoteCalls) = 2
    /\ RemoteCalls[1].outcome = OK
    /\ RemoteCalls[2].outcome \in ClientErrors
    /\ Failed

\* C7: the firewall toggler makes at most one remote call, an open or a
\* close and never a lookup, and whenever that call succeeds the invocation
\* reports changed = true, whether or not the rule was already open (closed).
C7_ChangedWithoutIdempotenceCheck ==
    (pc # "idle" /\ modname = "lightsail_firewall") =>
        /\ Len(RemoteCalls) <= 1
        /\ \A i \in 1..Len(RemoteCalls) :
              RemoteCalls[i].op \in {"open_instance_public_ports",
                                     "close_instance_public_ports"}
        /\ (Done /\ RemoteCalls # <<>> /\ LastRemote.outcome = OK)
              => (Succeeded /\ Report.changed = TRUE)

\* The second of two state=present invocations with the same rule: the rule
\* was open when it started, and it reports changed = true again.
C7_Witness ==
    /\ Firewall({"present"})
    /\ ninv = 2
    /\ Rule(params) \in pre.openPorts
    /\ RemoteCalls # <<>>
    /\ LastRemote.outcome = OK
    /\ Succeeded
    /\ Report.changed = TRUE

\* C8: with boto3 or botocore missing the invocation fails in main: no client
\* is opened and no SDK call is made; with no region it fails in core before
\* the client is opened and before any remote operation.
C8_PreflightBeforeRemote ==
    /\ (pc # "idle" /\ (~HAS_BOTO3 \/ ~HAS_BOTOCORE)) =>
          /\ pc \in {"main", "done"}
          /\ calls = <<>>
          /\ client = None
          /\ Done => Failed
    /\ (pc # "idle" /\ region = "") =>
          /\ pc \in {"main", "core", "done"}
          /\ calls = <<>>
          /\ client = None
          /\ Done => Failed

C8_Witness ==
    /\ Done
    /\ HAS_BOTO3
    /\ ~HAS_BOTOCORE
    /\ region # ""
    /\ Failed
    /\ Contains(Report.msg, "Python module \"botocore\" is missing, please install it")

\* C9: an invocation with state running, stopped or restarted that reaches
\* its branch of core makes no remote call, leaves the key pairs unchanged
\* and completes reporting changed = false.
C9_StubStatesReportUnchanged ==
    (Keypair({"running", "stopped", "restarted"}) /\ Done /\ stdout # <<>>) =>
        /\ RemoteCalls = <<>>
        /\ keyPairs = pre.keyPairs
        /\ Succeeded
        /\ Report.changed = FALSE

\* A finished invocation made exactly one report, an unfinished one none.
OneReport ==
    /\ Done => (Len(reports) = 1 /\ Report.kind \in {"exit_json", "fail_json"})
    /\ ~Done => reports = <<>>

\* What import_keypair leaves behind: the module failed, or core holds the
\* (changed, response) pair of a successful import.
ImportHandsOver ==
    (Keypair({"present"}) /\ pc \in {"exit", "done"}) =>
        \/ Failed
        \/ /\ changed = TRUE
           /\ response_dict # None
           /\ ImportedOnce
           /\ LastRemote.outcome = OK

\* C10: every invocation ends, with exactly one terminal report: one
\* exit_json or one fail_json, never both and never neither; import_keypair
\* in particular ends in a failed module or hands core its pair.
C10_ExactlyOneReport ==
    /\ [](OneReport /\ ImportHandsOver)
    /\ Running ~> Done

C10_Witness ==
    /\ Keypair({"present"})
    /\ Succeeded
    /\ ImportedOnce

====
